---------------------------- MODULE Spec2Model ----------------------------
(***************************************************************************)
(* Model of main.go of tbank-invest-aggregate: the backward replay of an   *)
(* account's operations and price candles that looks for the maximum       *)
(* aggregate account value inside the tax year.                            *)
(*                                                                         *)
(* Numbers are exact rationals (math/big.Rat), modelled as normalised      *)
(* pairs <<numerator, denominator>>.  Go maps are functions; a map lookup  *)
(* of an absent key yields the nil *big.Rat, modelled as NilRat.  The maps *)
(* the walk clones live in `heap`, and the program's map variables hold    *)
(* references into it, so that aliasing is visible in the model.           *)
(***************************************************************************)
EXTENDS Integers, Sequences, FiniteSets, TLC

VARIABLES
    pc,             \* position of main(): see the actions
    heap,           \* the map[string]*big.Rat objects allocated so far
    portfolio,      \* reference: main's portfolio
    prices,         \* reference: main's prices
    currencies,     \* the one map[string]string object (never cloned)
    updates,        \* map[time.Time][]Update
    nOps,           \* operation records fetched so far
    nCandles,       \* candles fetched so far
    times,          \* the part of the sorted `times` slice not yet visited
    cost,           \* reference: cost of the last evaluation (0: none yet)
    aggregate,      \* aggregate of the last evaluation
    bestPortfolio,  \* reference (0: nil map)
    bestPrices,     \* reference (0: nil map)
    bestCost,       \* reference (0: nil map)
    bestTime,       \* time.Time, the zero Time at first
    bestAggregate,  \* *big.Rat
    log,            \* the "new portfolio" debug records of the walk
    lastOp,         \* the loop variable `operation`: the record in hand
    before,         \* the portfolio mapping before that Update
    trace           \* what each valuation worked on, as it was then

vars == <<pc, heap, portfolio, prices, currencies, updates, nOps, nCandles,
          times, cost, aggregate, bestPortfolio, bestPrices, bestCost,
          bestTime, bestAggregate, log, lastOp, before, trace>>

----------------------------------------------------------------------------
(* Bounds of the model *)

\* operation records the operations service returns
MaxOps == 2
\* candles the market data service returns
MaxCandles == 1
\* timestamps are 0 .. MaxTime
MaxTime == 2
\* model ticks of time per calendar year
TicksPerYear == 2
\* Updates applied in a row to one portfolio (SpecUpdate)
MaxApplied == 2

----------------------------------------------------------------------------
(* math/big.Rat *)

TaxYear == 2025

NanoPerUnit == 1000000000

\* the year of the zero time.Time
ZeroYear == 1

Abs(n) == IF n < 0 THEN -n ELSE n

RECURSIVE GCD(_, _)
GCD(a, b) == IF b = 0 THEN a ELSE GCD(b, a % b)

\* the nil *big.Rat
NilRat == <<0, 0>>

\* big.NewRat(a, b): a/b in lowest terms with a positive denominator
NewRat(a, b) ==
    LET g == GCD(Abs(a), Abs(b))
        s == IF b < 0 THEN -1 ELSE 1
    IN  <<(s * a) \div g, Abs(b) \div g>>

\* &big.Rat{}
ZeroRat == NewRat(0, 1)

RatAdd(x, y) == NewRat(x[1] * y[2] + y[1] * x[2], x[2] * y[2])

RatSub(x, y) == NewRat(x[1] * y[2] - y[1] * x[2], x[2] * y[2])

RatMul(x, y) == NewRat(x[1] * y[1], x[2] * y[2])

\* (*Rat).Quo: the caller rules out the nil and the zero divisor (both panic)
RatQuo(x, y) == NewRat(x[1] * y[2], x[2] * y[1])

\* (*Rat).Cmp: -1, 0 or +1
RatCmp(x, y) ==
    LET d == x[1] * y[2] - y[1] * x[2]
    IN  IF d < 0 THEN -1 ELSE IF d > 0 THEN 1 ELSE 0

ToRat(value) ==
    LET units == NewRat(value.units, 1)
        nano == NewRat(value.nano, NanoPerUnit)
    IN  RatAdd(units, nano)

AddRat(x, y) ==
    RatAdd(IF x = NilRat THEN ZeroRat ELSE x, IF y = NilRat THEN ZeroRat ELSE y)

SubRat(x, y) ==
    RatSub(IF x = NilRat THEN ZeroRat ELSE x, IF y = NilRat THEN ZeroRat ELSE y)

----------------------------------------------------------------------------
(* Go maps *)

\* m[k] of a map[string]*big.Rat: nil when k is absent
Get(m, k) == IF k \in DOMAIN m THEN m[k] ELSE NilRat

\* m[k] of a map[string]string: "" when k is absent
GetStr(m, k) == IF k \in DOMAIN m THEN m[k] ELSE ""

\* m[k] = v
Put(m, k, v) == [x \in DOMAIN m \cup {k} |-> IF x = k THEN v ELSE m[x]]

\* delete(m, k)
Delete(m, k) == [x \in DOMAIN m \ {k} |-> m[x]]

EmptyMap == [x \in {} |-> NilRat]

ExchangeRates ==
    [amd |-> NewRat(380, 1),
     chf |-> NewRat(792, 1000),
     cny |-> NewRat(6998, 1000),
     eur |-> NewRat(851, 1000),
     gbp |-> NewRat(743, 1000),
     hkd |-> NewRat(7784, 1000),
     jpy |-> NewRat(15661, 100),
     kgs |-> NewRat(87412, 1000),
     kzt |-> NewRat(50628, 100),
     rub |-> NewRat(81996, 1000),
     tjs |-> NewRat(92, 10),
     try |-> NewRat(42951, 1000),
     usd |-> NewRat(1, 1),
     uzs |-> NewRat(1199941, 100)]

----------------------------------------------------------------------------
(* OperationToUpdate.  An operation record is                              *)
(*   [Type, AssetUid, Quantity, Payment |-> [units, nano, Currency], Date] *)
(* and an Update closure is the record of its function literal (fn) and    *)
(* of the operation fields that literal reads.                             *)

BuyTypes == {"OPERATION_TYPE_BUY"}

SellTypes == {"OPERATION_TYPE_SELL"}

PaymentTypes ==
    {"OPERATION_TYPE_BROKER_FEE", "OPERATION_TYPE_DIVIDEND",
     "OPERATION_TYPE_DIVIDEND_TAX", "OPERATION_TYPE_INPUT",
     "OPERATION_TYPE_TAX"}

InputSecuritiesTypes == {"OPERATION_TYPE_INPUT_SECURITIES"}

NoError == "nil"

UnsupportedOperationError == "unsupported operation type"

\* BuyUpdate without the deletion of an asset entry that reached zero
BuyUpdateKeepsZero(operation, p) ==
    LET asset == operation.AssetUid
        currency == operation.Payment.Currency
        p1 == Put(p, asset, SubRat(Get(p, asset), NewRat(operation.Quantity, 1)))
    IN  Put(p1, currency, SubRat(Get(p1, currency), ToRat(operation.Payment)))

\* the closure of case OPERATION_TYPE_BUY
BuyUpdate(operation, p) ==
    LET asset == operation.AssetUid
        currency == operation.Payment.Currency
        p1 == Put(p, asset, SubRat(Get(p, asset), NewRat(operation.Quantity, 1)))
        p2 == IF RatCmp(p1[asset], ZeroRat) = 0 THEN Delete(p1, asset) ELSE p1
    IN  Put(p2, currency, SubRat(Get(p2, currency), ToRat(operation.Payment)))

\* the closure of case OPERATION_TYPE_SELL
SellUpdate(operation, p) ==
    LET asset == operation.AssetUid
        currency == operation.Payment.Currency
        p1 == Put(p, asset, AddRat(Get(p, asset), NewRat(operation.Quantity, 1)))
        p2 == Put(p1, currency, SubRat(Get(p1, currency), ToRat(operation.Payment)))
    IN  IF RatCmp(p2[currency], ZeroRat) = 0 THEN Delete(p2, currency) ELSE p2

\* the closure of the cases BROKER_FEE, DIVIDEND, DIVIDEND_TAX, INPUT, TAX
PaymentUpdate(operation, p) ==
    LET currency == operation.Payment.Currency
        p1 == Put(p, currency, SubRat(Get(p, currency), ToRat(operation.Payment)))
    IN  IF RatCmp(p1[currency], ZeroRat) = 0 THEN Delete(p1, currency) ELSE p1

\* the closure of case OPERATION_TYPE_INPUT_SECURITIES
InputSecuritiesUpdate(operation, p) ==
    LET asset == operation.AssetUid
        p1 == Put(p, asset, SubRat(Get(p, asset), NewRat(operation.Quantity, 1)))
    IN  IF RatCmp(p1[asset], ZeroRat) = 0 THEN Delete(p1, asset) ELSE p1

\* OperationToUpdate whose default case falls into the payment case
OperationToUpdateDefaultPayment(operation) ==
    CASE operation.Type \in BuyTypes ->
            [update |-> [fn |-> "buy", AssetUid |-> operation.AssetUid,
                         Quantity |-> operation.Quantity,
                         Payment |-> operation.Payment],
             err |-> NoError]
      [] operation.Type \in SellTypes ->
            [update |-> [fn |-> "sell", AssetUid |-> operation.AssetUid,
                         Quantity |-> operation.Quantity,
                         Payment |-> operation.Payment],
             err |-> NoError]
      [] operation.Type \in InputSecuritiesTypes ->
            [update |-> [fn |-> "securities", AssetUid |-> operation.AssetUid,
                         Quantity |-> operation.Quantity],
             err |-> NoError]
      [] OTHER ->
            [update |-> [fn |-> "payment", Payment |-> operation.Payment],
             err |-> NoError]

\* OperationToUpdate whose INPUT_SECURITIES case returns the BUY closure
OperationToUpdateSecuritiesAsBuy(operation) ==
    CASE operation.Type \in BuyTypes ->
            [update |-> [fn |-> "buy", AssetUid |-> operation.AssetUid,
                         Quantity |-> operation.Quantity,
                         Payment |-> operation.Payment],
             err |-> NoError]
      [] operation.Type \in SellTypes ->
            [update |-> [fn |-> "sell", AssetUid |-> operation.AssetUid,
                         Quantity |-> operation.Quantity,
                         Payment |-> operation.Payment],
             err |-> NoError]
      [] operation.Type \in PaymentTypes ->
            [update |-> [fn |-> "payment", Payment |-> operation.Payment],
             err |-> NoError]
      [] operation.Type \in InputSecuritiesTypes ->
            [update |-> [fn |-> "buy", AssetUid |-> operation.AssetUid,
                         Quantity |-> operation.Quantity,
                         Payment |-> operation.Payment],
             err |-> NoError]
      [] OTHER ->
            [update |-> [fn |-> "nil"], err |-> UnsupportedOperationError]

\* the closure OperationToUpdate returns for the record, or the error
OperationToUpdate(operation) ==
    CASE operation.Type \in BuyTypes ->
            [update |-> [fn |-> "buy", AssetUid |-> operation.AssetUid,
                         Quantity |-> operation.Quantity,
                         Payment |-> operation.Payment],
             err |-> NoError]
      [] operation.Type \in SellTypes ->
            [update |-> [fn |-> "sell", AssetUid |-> operation.AssetUid,
                         Quantity |-> operation.Quantity,
                         Payment |-> operation.Payment],
             err |-> NoError]
      [] operation.Type \in PaymentTypes ->
            [update |-> [fn |-> "payment", Payment |-> operation.Payment],
             err |-> NoError]
      [] operation.Type \in InputSecuritiesTypes ->
            [update |-> [fn |-> "securities", AssetUid |-> operation.AssetUid,
                         Quantity |-> operation.Quantity],
             err |-> NoError]
      [] OTHER ->
            [update |-> [fn |-> "nil"], err |-> UnsupportedOperationError]

\* the candle closure without its write of the price currency
PriceUpdateKeepsCurrency(update, r, c) ==
    [prices |-> Put(r, update.asset, update.price), currencies |-> c]

\* the closure a candle adds: prices[asset] = price, currencies[asset] = ...
PriceUpdate(update, r, c) ==
    [prices |-> Put(r, update.asset, update.price),
     currencies |-> Put(c, update.asset, update.currency)]

\* update(portfolio, prices, currencies): the three maps after the call
Update(update, p, r, c) ==
    CASE update.fn = "buy" ->
            [portfolio |-> BuyUpdate(update, p), prices |-> r, currencies |-> c]
      [] update.fn = "sell" ->
            [portfolio |-> SellUpdate(update, p), prices |-> r, currencies |-> c]
      [] update.fn = "payment" ->
            [portfolio |-> PaymentUpdate(update, p), prices |-> r, currencies |-> c]
      [] update.fn = "securities" ->
            [portfolio |-> InputSecuritiesUpdate(update, p), prices |-> r,
             currencies |-> c]
      [] update.fn = "price" ->
            [portfolio |-> p] @@ PriceUpdate(update, r, c)


----------------------------------------------------------------------------
(* SellAll and Aggregate.  Both range over a Go map, whose iteration order *)
(* is unspecified; SellAll also inserts into and deletes from the map it   *)
(* ranges over, and an entry created during the iteration may be produced  *)
(* or skipped.  Each is therefore the set of the outcomes of all orders.   *)

\* the loop body storing the proceeds where line 200 adds them
SellAllVisitOverwrites(m, assetUid, r, c) ==
    IF assetUid \in DOMAIN r
    THEN LET currency == GetStr(c, assetUid)
             m1 == Put(m, currency, RatMul(r[assetUid], m[assetUid]))
         IN  Delete(m1, assetUid)
    ELSE m

\* the body of SellAll's loop for the entry of assetUid
SellAllVisit(m, assetUid, r, c) ==
    IF assetUid \in DOMAIN r
    THEN LET currency == GetStr(c, assetUid)
             m1 == Put(m, currency,
                       AddRat(Get(m, currency), RatMul(r[assetUid], m[assetUid])))
         IN  Delete(m1, assetUid)
    ELSE m

\* the keys SellAll's loop body creates when it visits assetUid
SellAllCreated(m, assetUid, r, c) ==
    IF assetUid \in DOMAIN r /\ GetStr(c, assetUid) \notin DOMAIN m
    THEN {GetStr(c, assetUid)}
    ELSE {}

\* must: entries present at the start and not reached yet; may: entries
\* created since, which the iteration may produce or skip
RECURSIVE SellAllFrom(_, _, _, _, _)
SellAllFrom(m, must, may, r, c) ==
    (IF must = {} THEN {m} ELSE {})
    \cup UNION { SellAllFrom(SellAllVisit(m, k, r, c),
                             (must \ {k}) \cap DOMAIN SellAllVisit(m, k, r, c),
                             (may \ {k}) \cup SellAllCreated(m, k, r, c),
                             r, c) : k \in must \cup may }

\* SellAll(portfolio, prices, currencies): the mappings it can leave in m
SellAll(m, r, c) == SellAllFrom(m, DOMAIN m, {}, r, c)

PanicValue == [panic |-> TRUE, sum |-> NilRat]

\* Aggregate that skips the keys ExchangeRates does not hold
RECURSIVE AggregateFromSkipsMissing(_, _, _)
AggregateFromSkipsMissing(m, todo, sum) ==
    IF todo = {}
    THEN {[panic |-> FALSE, sum |-> sum]}
    ELSE UNION { AggregateFromSkipsMissing(
                    m, todo \ {k},
                    IF Get(ExchangeRates, k) = NilRat
                    THEN sum
                    ELSE AddRat(sum, RatQuo(m[k], ExchangeRates[k])))
                 : k \in todo }

\* Aggregate with the rate multiplied in where line 209 divides by it
RECURSIVE AggregateFromTimesRate(_, _, _)
AggregateFromTimesRate(m, todo, sum) ==
    IF todo = {}
    THEN {[panic |-> FALSE, sum |-> sum]}
    ELSE UNION { IF Get(ExchangeRates, k) = NilRat
                 THEN {PanicValue}
                 ELSE AggregateFromTimesRate(
                         m, todo \ {k},
                         AddRat(sum, RatMul(m[k], ExchangeRates[k])))
                 : k \in todo }

\* Quo panics on the nil rate of a key ExchangeRates does not hold
RECURSIVE AggregateFrom(_, _, _)
AggregateFrom(m, todo, sum) ==
    IF todo = {}
    THEN {[panic |-> FALSE, sum |-> sum]}
    ELSE UNION { IF Get(ExchangeRates, k) = NilRat
                 THEN {PanicValue}
                 ELSE AggregateFrom(m, todo \ {k},
                                    AddRat(sum, RatQuo(m[k], ExchangeRates[k])))
                 : k \in todo }

\* Aggregate(cost): the results of all iteration orders
Aggregate(m) == AggregateFrom(m, DOMAIN m, ZeroRat)

----------------------------------------------------------------------------
(* Time.  A time.Time is a number of ticks since the start of TaxYear.     *)

Year(date) == TaxYear + (date \div TicksPerYear)

\* time.Time{}
ZeroTime == (ZeroYear - TaxYear) * TicksPerYear

Times == 0 .. MaxTime

----------------------------------------------------------------------------
(* Inputs *)

AssetUids == {"X"}

OperationTypes ==
    BuyTypes \cup SellTypes \cup PaymentTypes \cup InputSecuritiesTypes
    \cup {"OPERATION_TYPE_OUTPUT"}

Quotation(u, n) == [units |-> u, nano |-> n]

MoneyValue(u, n, c) == [units |-> u, nano |-> n, Currency |-> c]

NoOperation ==
    [Type |-> "none", AssetUid |-> "", Quantity |-> 0,
     Payment |-> MoneyValue(0, 0, ""), Date |-> ZeroTime]

EmptyStrMap == [x \in {} |-> ""]

----------------------------------------------------------------------------
(* SpecUpdate: OperationToUpdate as a function.  A zero-pruned portfolio   *)
(* is drawn, and the Updates of up to MaxApplied operation records are     *)
(* applied to it in place.                                                 *)

UpdateQuantities == {1, 10}

UpdatePayments ==
    {MoneyValue(0, 500000000, "usd"), MoneyValue(500, 0, "usd"),
     MoneyValue(-10, 0, "usd"), MoneyValue(500, 0, "eur")}

UpdateOperations ==
    [Type : OperationTypes, AssetUid : AssetUids, Quantity : UpdateQuantities,
     Payment : UpdatePayments, Date : {0}]

UpdateBalances == {NewRat(1, 2), NewRat(10, 1), NewRat(500, 1), NewRat(1000, 1)}

UpdatePortfolios ==
    UNION {[keys -> UpdateBalances] : keys \in SUBSET {"X", "usd"}}

InitUpdate ==
    /\ pc = "update"
    /\ \E p \in UpdatePortfolios : heap = <<p>>
    /\ portfolio = 1
    /\ prices = 0
    /\ currencies = EmptyStrMap
    /\ updates = <<>>
    /\ nOps = 0
    /\ nCandles = 0
    /\ times = <<>>
    /\ cost = 0
    /\ aggregate = NilRat
    /\ bestPortfolio = 0
    /\ bestPrices = 0
    /\ bestCost = 0
    /\ bestTime = ZeroTime
    /\ bestAggregate = ZeroRat
    /\ log = <<>>
    /\ lastOp = NoOperation
    /\ before = EmptyMap
    /\ trace = <<>>

\* update(portfolio, nil, nil) of the Update of one more operation record
ApplyOperation ==
    /\ pc = "update"
    /\ nOps < MaxApplied
    /\ \E operation \in UpdateOperations :
          LET res == OperationToUpdate(operation)
          IN  /\ res.err = NoError
              /\ heap' = [heap EXCEPT ![portfolio] =
                            Update(res.update, heap[portfolio], EmptyMap,
                                   EmptyStrMap).portfolio]
              /\ lastOp' = operation
    /\ before' = heap[portfolio]
    /\ nOps' = nOps + 1
    /\ UNCHANGED <<pc, portfolio, prices, currencies, updates, nCandles, times,
                   cost, aggregate, bestPortfolio, bestPrices, bestCost,
                   bestTime, bestAggregate, log, trace>>

NextUpdate == ApplyOperation

SpecUpdate == InitUpdate /\ [][NextUpdate]_vars

\* no entry of m is exactly zero
ZeroPruned(m) == \A k \in DOMAIN m : RatCmp(m[k], ZeroRat) # 0


----------------------------------------------------------------------------
(* Spec: main() from the positions loop to the "best portfolio" record.    *)
(* pc: "snapshot" (line 286), "fetch" (the operations loop), "candles"     *)
(* (the candles loop), "walk" (the loop over times), "done" (after the     *)
(* last record), "aborted" (the return of line 326), "panic" (a run-time   *)
(* panic inside Aggregate).                                                *)

\* the maps the positions loop builds: cash in a currency of ExchangeRates,
\* and asset positions, each with its current price and price currency
MainSnapshots ==
    {[portfolio |-> EmptyMap, prices |-> EmptyMap, currencies |-> EmptyStrMap],
     [portfolio |-> [usd |-> ToRat(Quotation(5, 0))], prices |-> EmptyMap,
      currencies |-> EmptyStrMap],
     [portfolio |-> [usd |-> ToRat(Quotation(-4, 0))], prices |-> EmptyMap,
      currencies |-> EmptyStrMap],
     [portfolio |-> [X |-> ToRat(Quotation(2, 0)),
                     usd |-> ToRat(Quotation(5, 0))],
      prices |-> [X |-> ToRat(Quotation(3, 0))],
      currencies |-> [X |-> "eur"]]}

MainOperations ==
    {[Type |-> t[1], AssetUid |-> "X", Quantity |-> 1,
      Payment |-> MoneyValue(t[2], 0, t[3]), Date |-> d] :
        t \in {<<"OPERATION_TYPE_BUY", -3, "usd">>,
               <<"OPERATION_TYPE_SELL", 3, "usd">>,
               <<"OPERATION_TYPE_DIVIDEND", 3, "usd">>,
               <<"OPERATION_TYPE_TAX", 3, "usd">>,
               <<"OPERATION_TYPE_INPUT", 3, "usd">>,
               <<"OPERATION_TYPE_DIVIDEND_TAX", 3, "usd">>,
               <<"OPERATION_TYPE_BROKER_FEE", -3, "cad">>,
               <<"OPERATION_TYPE_INPUT_SECURITIES", 0, "usd">>,
               <<"OPERATION_TYPE_OUTPUT", -3, "usd">>},
        d \in Times}

\* a candle of an instrument of asset X; Currency is the instrument's
\* entry of instrumentCurrencies, and High differs from tick to tick
MainCandles ==
    {[asset |-> a, High |-> Quotation(4 + t, 0), Currency |-> "usd",
      Time |-> t] : a \in AssetUids, t \in Times}

\* updates[date] = append(updates[date], update)
AppendUpdate(u, date, update) ==
    [d \in DOMAIN u \cup {date} |->
        IF d = date
        THEN Append(IF date \in DOMAIN u THEN u[date] ELSE <<>>, update)
        ELSE u[d]]

\* the keys sorted with a.Compare(b): oldest first
RECURSIVE SortedTimesAscending(_)
SortedTimesAscending(keys) ==
    IF keys = {}
    THEN <<>>
    ELSE LET oldest == CHOOSE a \in keys : \A b \in keys : a <= b
         IN  <<oldest>> \o SortedTimesAscending(keys \ {oldest})

\* slices.SortedFunc(maps.Keys(updates), b.Compare(a)): newest first
RECURSIVE SortedTimes(_)
SortedTimes(keys) ==
    IF keys = {}
    THEN <<>>
    ELSE LET newest == CHOOSE a \in keys : \A b \in keys : b <= a
         IN  <<newest>> \o SortedTimes(keys \ {newest})

\* for _, update := range updates[date] { update(portfolio, prices, currencies) }
RECURSIVE ApplyBatch(_, _)
ApplyBatch(batch, maps) ==
    IF batch = <<>>
    THEN maps
    ELSE ApplyBatch(Tail(batch),
                    Update(Head(batch), maps.portfolio, maps.prices,
                           maps.currencies))

\* the loop without its test of the year
OutOfYearNever(date) == FALSE

\* date.Year() != TaxYear: the step is skipped
OutOfYear(date) == Year(date) # TaxYear

\* the comparison with <= 0 in place of < 0
IsBetterOrEqual(best, value) == RatCmp(best, value) <= 0

\* bestAggregate.Cmp(aggregate) < 0
IsBetter(best, value) == RatCmp(best, value) < 0

Init ==
    /\ pc = "snapshot"
    /\ \E s \in MainSnapshots :
          /\ heap = <<s.portfolio, s.prices>>
          /\ currencies = s.currencies
    /\ portfolio = 1
    /\ prices = 2
    /\ updates = <<>>
    /\ nOps = 0
    /\ nCandles = 0
    /\ times = <<>>
    /\ cost = 0
    /\ aggregate = NilRat
    /\ bestPortfolio = 0
    /\ bestPrices = 0
    /\ bestCost = 0
    /\ bestTime = ZeroTime
    /\ bestAggregate = ZeroRat
    /\ log = <<>>
    /\ lastOp = NoOperation
    /\ before = EmptyMap
    /\ trace = <<>>

\* line 258: the moment of the run, later than every record it fetches
Now == MaxTime + 1

\* lines 286-291, 389-396: the maps one valuation worked on, by reference
\* and by content at that moment
Valuation(date, p, r, k, c, h) ==
    [time |-> date, portfolio |-> p, prices |-> r, cost |-> k,
     maps |-> [portfolio |-> h[p], prices |-> h[r], currencies |-> c,
               cost |-> h[k]]]

\* lines 286-291: the "current portfolio" record
Snapshot ==
    /\ pc = "snapshot"
    /\ \E sold \in SellAll(heap[portfolio], heap[prices], currencies) :
       \E value \in Aggregate(sold) :
          /\ heap' = Append(heap, sold)
          /\ cost' = Len(heap) + 1
          /\ aggregate' = value.sum
          /\ pc' = IF value.panic THEN "panic" ELSE "fetch"
          /\ trace' = Append(trace,
                 Valuation(Now, portfolio, prices, cost', currencies, heap'))
    /\ UNCHANGED <<portfolio, prices, currencies, updates, nOps, nCandles,
                   times, bestPortfolio, bestPrices, bestCost, bestTime,
                   bestAggregate, log, lastOp, before>>

\* lines 307-330: one operation record of the history
FetchOperation ==
    /\ pc = "fetch"
    /\ nOps < MaxOps
    /\ \E operation \in MainOperations :
          LET res == OperationToUpdate(operation)
          IN  /\ lastOp' = operation
              /\ IF res.err # NoError
                 THEN /\ pc' = "aborted"
                      /\ UNCHANGED updates
                 ELSE /\ pc' = pc
                      /\ updates' = AppendUpdate(updates, operation.Date,
                                                 res.update)
    /\ nOps' = nOps + 1
    /\ UNCHANGED <<heap, portfolio, prices, currencies, nCandles, times, cost,
                   aggregate, bestPortfolio, bestPrices, bestCost, bestTime,
                   bestAggregate, log, before, trace>>

\* lines 331-336: the last page of operations was read
EndOperations ==
    /\ pc = "fetch"
    /\ pc' = "candles"
    /\ lastOp' = NoOperation
    /\ UNCHANGED <<heap, portfolio, prices, currencies, updates, nOps,
                   nCandles, times, cost, aggregate, bestPortfolio, bestPrices,
                   bestCost, bestTime, bestAggregate, log, before, trace>>

\* lines 370-377: one candle
FetchCandle ==
    /\ pc = "candles"
    /\ nCandles < MaxCandles
    /\ \E candle \in MainCandles :
          updates' = AppendUpdate(updates, candle.Time,
                                  [fn |-> "price", asset |-> candle.asset,
                                   price |-> ToRat(candle.High),
                                   currency |-> candle.Currency])
    /\ nCandles' = nCandles + 1
    /\ UNCHANGED <<pc, heap, portfolio, prices, currencies, nOps, times, cost,
                   aggregate, bestPortfolio, bestPrices, bestCost, bestTime,
                   bestAggregate, log, lastOp, before, trace>>

\* lines 380-387: the best Candidate is declared and the times are sorted
StartWalk ==
    /\ pc = "candles"
    /\ pc' = "walk"
    /\ times' = SortedTimes(DOMAIN updates)
    /\ bestPortfolio' = 0
    /\ bestPrices' = 0
    /\ bestCost' = 0
    /\ bestTime' = ZeroTime
    /\ bestAggregate' = ZeroRat
    /\ UNCHANGED <<heap, portfolio, prices, currencies, updates, nOps,
                   nCandles, cost, aggregate, log, lastOp, before, trace>>

\* lines 388-413: one iteration of the loop over times
Step ==
    /\ pc = "walk"
    /\ times # <<>>
    /\ LET date == Head(times)
           maps == ApplyBatch(updates[date],
                              [portfolio |-> heap[portfolio],
                               prices |-> heap[prices],
                               currencies |-> currencies])
       IN  \E sold \in SellAll(maps.portfolio, maps.prices, maps.currencies) :
           \E value \in Aggregate(sold) :
              /\ heap' = heap \o <<maps.portfolio, maps.prices, sold>>
              /\ portfolio' = Len(heap) + 1
              /\ prices' = Len(heap) + 2
              /\ cost' = Len(heap) + 3
              /\ currencies' = maps.currencies
              /\ aggregate' = value.sum
              /\ trace' = Append(trace,
                     Valuation(date, portfolio', prices', cost', currencies',
                               heap'))
              /\ IF value.panic
                 THEN /\ pc' = "panic"
                      /\ UNCHANGED <<times, log, bestPortfolio, bestPrices,
                                     bestCost, bestTime, bestAggregate>>
                 ELSE /\ pc' = pc
                      /\ times' = Tail(times)
                      /\ IF ~OutOfYear(date) /\ IsBetter(bestAggregate, value.sum)
                         THEN /\ bestPortfolio' = portfolio'
                              /\ bestPrices' = prices'
                              /\ bestCost' = cost'
                              /\ bestTime' = date
                              /\ bestAggregate' = value.sum
                              /\ log' = Append(log, [time |-> date,
                                                     aggregate |-> value.sum,
                                                     newBest |-> TRUE])
                         ELSE /\ log' = Append(log, [time |-> date,
                                                     aggregate |-> value.sum,
                                                     newBest |-> FALSE])
                              /\ UNCHANGED <<bestPortfolio, bestPrices,
                                             bestCost, bestTime, bestAggregate>>
    /\ UNCHANGED <<updates, nOps, nCandles, lastOp, before>>

\* lines 414-419: the "best portfolio" record
Report ==
    /\ pc = "walk"
    /\ times = <<>>
    /\ pc' = "done"
    /\ UNCHANGED <<heap, portfolio, prices, currencies, updates, nOps,
                   nCandles, times, cost, aggregate, bestPortfolio, bestPrices,
                   bestCost, bestTime, bestAggregate, log, lastOp,
                   before, trace>>

Next ==
    \/ Snapshot
    \/ FetchOperation
    \/ EndOperations
    \/ FetchCandle
    \/ StartWalk
    \/ Step
    \/ Report

Spec == Init /\ [][Next]_vars


----------------------------------------------------------------------------
(* SpecValue: SellAll and Aggregate as functions.  A portfolio and a price *)
(* table are drawn; Sell is cost := maps.Clone(portfolio) followed by      *)
(* SellAll(cost, prices, currencies), and Value is Aggregate(cost).        *)

\* identifiers that are currency codes; "cad" has no entry in ExchangeRates
CurrencyCodes == DOMAIN ExchangeRates \cup {"cad"}

ValueBalances == {NewRat(5, 1), NewRat(-1, 2)}

ValuePortfolios ==
    UNION {[keys -> ValueBalances] : keys \in SUBSET {"X", "Y", "usd", "eur"}}
    \cup {[cad |-> NewRat(5, 1)], [usd |-> NewRat(5, 1), cad |-> NewRat(5, 1)]}
    \cup {[usd |-> NewRat(100, 1), eur |-> NewRat(100, 1)]}

\* price tables: each of X, Y and the key "eur" either has no price or a
\* price with its price currency
ValuePriceTables ==
    {[prices |-> x.prices @@ y.prices @@ z.prices,
      currencies |-> x.currencies @@ y.currencies @@ z.currencies] :
        x \in {[prices |-> EmptyMap, currencies |-> EmptyStrMap]}
              \cup {[prices |-> [X |-> NewRat(3, 1)], currencies |-> [X |-> c]] :
                        c \in {"usd", "eur", "cad"}},
        y \in {[prices |-> EmptyMap, currencies |-> EmptyStrMap],
               [prices |-> [Y |-> NewRat(1, 2)], currencies |-> [Y |-> "eur"]]},
        z \in {[prices |-> EmptyMap, currencies |-> EmptyStrMap],
               [prices |-> [eur |-> NewRat(2, 1)], currencies |-> [eur |-> "usd"]]}}

InitValue ==
    /\ pc = "value"
    /\ \E p \in ValuePortfolios, t \in ValuePriceTables :
          /\ heap = <<p, t.prices>>
          /\ currencies = t.currencies
    /\ portfolio = 1
    /\ prices = 2
    /\ updates = <<>>
    /\ nOps = 0
    /\ nCandles = 0
    /\ times = <<>>
    /\ cost = 0
    /\ aggregate = NilRat
    /\ bestPortfolio = 0
    /\ bestPrices = 0
    /\ bestCost = 0
    /\ bestTime = ZeroTime
    /\ bestAggregate = ZeroRat
    /\ log = <<>>
    /\ lastOp = NoOperation
    /\ before = EmptyMap
    /\ trace = <<>>

\* cost := maps.Clone(portfolio); SellAll(cost, prices, currencies)
Sell ==
    /\ pc = "value"
    /\ \E sold \in SellAll(heap[portfolio], heap[prices], currencies) :
          /\ heap' = Append(heap, sold)
          /\ cost' = Len(heap) + 1
    /\ pc' = "sold"
    /\ UNCHANGED <<portfolio, prices, currencies, updates, nOps, nCandles,
                   times, aggregate, bestPortfolio, bestPrices, bestCost,
                   bestTime, bestAggregate, log, lastOp, before, trace>>

\* aggregate := Aggregate(cost)
Value ==
    /\ pc = "sold"
    /\ \E value \in Aggregate(heap[cost]) :
          /\ aggregate' = value.sum
          /\ pc' = IF value.panic THEN "panic" ELSE "valued"
    /\ UNCHANGED <<heap, portfolio, prices, currencies, updates, nOps,
                   nCandles, times, cost, bestPortfolio, bestPrices, bestCost,
                   bestTime, bestAggregate, log, lastOp, before, trace>>

NextValue == Sell \/ Value

SpecValue == InitValue /\ [][NextValue]_vars

----------------------------------------------------------------------------
(* Properties of OperationToUpdate (SpecUpdate) *)

\* the quantity m holds of k: zero when there is no entry
Val(m, k) == IF k \in DOMAIN m THEN m[k] ELSE ZeroRat

\* m without its zero entries
Pruned(m) == [k \in {x \in DOMAIN m : RatCmp(m[x], ZeroRat) # 0} |-> m[k]]

\* C1: a portfolio that starts without zero entries has no zero entry after
\* any sequence of operation updates.
C1_ZeroPruning == pc = "update" => ZeroPruned(heap[portfolio])

\* the forward economic effect of an operation record, zero entries pruned:
\* the asset moves by the quantity and the cash by the signed payment
Forward(operation, p) ==
    LET asset == operation.AssetUid
        currency == operation.Payment.Currency
        n == NewRat(operation.Quantity, 1)
        paid == Put(p, currency, RatAdd(Val(p, currency), ToRat(operation.Payment)))
    IN  Pruned(
          CASE operation.Type \in BuyTypes ->
                  Put(paid, asset, RatAdd(Val(paid, asset), n))
            [] operation.Type \in SellTypes ->
                  Put(paid, asset, RatSub(Val(paid, asset), n))
            [] operation.Type \in PaymentTypes -> paid
            [] operation.Type \in InputSecuritiesTypes ->
                  Put(p, asset, RatAdd(Val(p, asset), n)))

\* C9: on a zero-pruned portfolio, an operation's forward effect followed by
\* its Update, and its Update followed by its forward effect, both give back
\* the portfolio mapping (same keys, same values).
C9_Reversibility ==
    (pc = "update" /\ nOps > 0 /\ ZeroPruned(before)) =>
        /\ Update(OperationToUpdate(lastOp).update, Forward(lastOp, before),
                  EmptyMap, EmptyStrMap).portfolio = before
        /\ Forward(lastOp, heap[portfolio]) = before

\* C10: the Update of a BUY of n of X paid p in c turns holdings a of X and
\* b of c into a-n and b-p, with no X entry when a-n is zero, and changes
\* nothing else; from {X: 10, usd: 1000}, n = 10 and p = 500 usd leave
\* exactly {usd: 500}.
C10_BuyReversal ==
    (pc = "update" /\ lastOp.Type \in BuyTypes) =>
        LET after == heap[portfolio]
            asset == lastOp.AssetUid
            currency == lastOp.Payment.Currency
            left == RatSub(Val(before, asset), NewRat(lastOp.Quantity, 1))
        IN  /\ Val(after, asset) = left
            /\ left = ZeroRat => asset \notin DOMAIN after
            /\ currency \in DOMAIN after
            /\ after[currency] =
                  RatSub(Val(before, currency), ToRat(lastOp.Payment))
            /\ \A k \in (DOMAIN before \cup DOMAIN after) \ {asset, currency} :
                  k \in DOMAIN before /\ k \in DOMAIN after /\ after[k] = before[k]
            /\ (/\ before = [X |-> <<10, 1>>, usd |-> <<1000, 1>>]
                /\ asset = "X" /\ lastOp.Quantity = 10
                /\ lastOp.Payment = MoneyValue(500, 0, "usd"))
               => after = [usd |-> <<500, 1>>]

C10_Witness ==
    /\ pc = "update"
    /\ lastOp.Type \in BuyTypes
    /\ before = [X |-> <<10, 1>>, usd |-> <<1000, 1>>]
    /\ lastOp.Quantity = 10
    /\ lastOp.Payment = MoneyValue(500, 0, "usd")
    /\ heap[portfolio] = [usd |-> <<500, 1>>]


----------------------------------------------------------------------------
(* Properties of the walk (Spec) *)

\* the steps of the walk whose timestamp lies in the tax year
InYearSteps == {i \in DOMAIN log : Year(log[i].time) = TaxYear}

\* the best aggregate before step i: that of the last replacement before i,
\* or the initial zero
BestBefore(i) ==
    LET earlier == {j \in 1 .. (i - 1) : log[j].newBest}
    IN  IF earlier = {}
        THEN ZeroRat
        ELSE log[CHOOSE j \in earlier : \A k \in earlier : k <= j].aggregate

BestUnset ==
    /\ bestPortfolio = 0
    /\ bestPrices = 0
    /\ bestCost = 0
    /\ bestTime = ZeroTime

\* C2: at the end of the walk the best aggregate is at least the aggregate
\* of every in-year step, and every replacement of the best Candidate
\* strictly increased the best aggregate.
C2_BestTracking ==
    /\ pc = "done" =>
          \A i \in InYearSteps : RatCmp(bestAggregate, log[i].aggregate) >= 0
    /\ \A i \in DOMAIN log :
          log[i].newBest => RatCmp(log[i].aggregate, BestBefore(i)) > 0
    /\ bestAggregate = BestBefore(Len(log) + 1)

C2_Witness ==
    /\ pc = "done"
    /\ \E i, j \in InYearSteps : i < j /\ log[i].newBest /\ log[j].newBest

\* C3: a best Candidate's timestamp lies in the tax year, and a step whose
\* timestamp is outside the tax year never changes the best Candidate,
\* however large its aggregate.
C3_OutOfYearExcluded ==
    /\ [](bestPortfolio # 0 => Year(bestTime) = TaxYear)
    /\ [][(pc = "walk" /\ times # <<>> /\ Year(Head(times)) # TaxYear)
            => UNCHANGED <<bestTime, bestPortfolio, bestPrices, bestCost,
                           bestAggregate>>]_vars

C3_Witness ==
    /\ pc = "done"
    /\ bestPortfolio # 0
    /\ \E i \in DOMAIN log :
          /\ Year(log[i].time) # TaxYear
          /\ RatCmp(log[i].aggregate, bestAggregate) > 0

\* C5: a cost mapping with a currency code that ExchangeRates does not hold
\* ends the run in a panic: no aggregate value, no later step and no final
\* record; the entry is neither skipped nor valued at zero.
C5_MissingRateFatal ==
    (cost # 0 /\ \E k \in DOMAIN heap[cost] \cap CurrencyCodes :
                    k \notin DOMAIN ExchangeRates)
        => (pc = "panic" /\ aggregate = NilRat)

C5_Witness ==
    /\ pc = "panic"
    /\ "cad" \in DOMAIN heap[cost]
    /\ log # <<>>

\* the operation types OperationToUpdate handles
SupportedTypes ==
    {"OPERATION_TYPE_BUY", "OPERATION_TYPE_SELL", "OPERATION_TYPE_BROKER_FEE",
     "OPERATION_TYPE_DIVIDEND", "OPERATION_TYPE_DIVIDEND_TAX",
     "OPERATION_TYPE_INPUT", "OPERATION_TYPE_TAX",
     "OPERATION_TYPE_INPUT_SECURITIES"}

\* C6: an operation record of another type makes OperationToUpdate return
\* UnsupportedOperationError and the run stop at that record: no update is
\* registered for it, no step of the walk runs, no best Candidate is set.
C6_UnsupportedAborts ==
    /\ (lastOp # NoOperation /\ lastOp.Type \notin SupportedTypes) =>
          /\ OperationToUpdate(lastOp).err = UnsupportedOperationError
          /\ pc = "aborted"
    /\ pc = "aborted" =>
          /\ lastOp.Type \notin SupportedTypes
          /\ log = <<>>
          /\ times = <<>>
          /\ BestUnset
    /\ pc \in {"walk", "done"} =>
          \A d \in DOMAIN updates : \A i \in DOMAIN updates[d] :
              updates[d][i].fn \in {"buy", "sell", "payment", "securities", "price"}

C6_Witness ==
    /\ pc = "aborted"
    /\ nOps = MaxOps
    /\ DOMAIN updates # {}

\* C7: a walk that ends without a step in the tax year ends in an error
\* state and produces no final record.
C7_NoCandidateFatal == pc = "done" => InYearSteps # {}

\* C8: when the walk ends after a step in the tax year, the best Candidate
\* is one of the in-year steps, whatever the sign of their aggregates.
C8_CandidateExists ==
    (pc = "done" /\ InYearSteps # {}) =>
        /\ bestPortfolio # 0
        /\ \E i \in InYearSteps :
              bestTime = log[i].time /\ bestAggregate = log[i].aggregate

----------------------------------------------------------------------------
(* Properties of SellAll and Aggregate (SpecValue) *)

\* the sum of the currency entries of m, each divided by its rate
RECURSIVE SumOfCurrencies(_, _)
SumOfCurrencies(m, todo) ==
    IF todo = {}
    THEN ZeroRat
    ELSE LET k == CHOOSE x \in todo : TRUE
         IN  RatAdd(RatQuo(m[k], ExchangeRates[k]), SumOfCurrencies(m, todo \ {k}))

\* the asset entries of the portfolio that have no price
Unpriced == {k \in DOMAIN heap[portfolio] \ CurrencyCodes : k \notin DOMAIN heap[prices]}

\* C4: SellAll keeps every asset entry without a price, quantity unchanged,
\* and Aggregate of that cost mapping returns the normalised sum of the
\* currency entries alone.
C4_UnpricedValuedAtZero ==
    (/\ pc \in {"valued", "panic"}
     /\ DOMAIN heap[cost] \cap CurrencyCodes \subseteq DOMAIN ExchangeRates) =>
        /\ \A k \in Unpriced :
              k \in DOMAIN heap[cost] /\ heap[cost][k] = heap[portfolio][k]
        /\ pc = "valued"
        /\ aggregate = SumOfCurrencies(heap[cost], DOMAIN heap[cost] \cap CurrencyCodes)

----------------------------------------------------------------------------
(* Aggregate, SpecValue                                                    *)

\* C11: for a cost mapping whose keys all have an exchange rate, Aggregate
\* returns the sum over the keys of amount divided by the key's rate, the
\* same for every iteration order; a mapping holding only "usd" is valued at
\* exactly its amount, and 100 usd with 100 eur at 100 + 100/0.851.
C11_AggregateUsdEquivalent ==
    (/\ pc \in {"sold", "valued"}
     /\ DOMAIN heap[cost] \subseteq DOMAIN ExchangeRates) =>
        LET m == heap[cost]
            expected == SumOfCurrencies(m, DOMAIN m)
        IN  /\ Aggregate(m) = {[panic |-> FALSE, sum |-> expected]}
            /\ pc = "valued" => aggregate = expected
            /\ DOMAIN m = {"usd"} => expected = m["usd"]
            /\ m = [usd |-> <<100, 1>>, eur |-> <<100, 1>>] =>
                  expected = <<185100, 851>>

C11_Witness ==
    /\ pc = "valued"
    /\ heap[cost] = [usd |-> <<100, 1>>, eur |-> <<100, 1>>]
    /\ aggregate = <<185100, 851>>

----------------------------------------------------------------------------
(* The walk as a replay (Spec)                                             *)

\* the portfolio, prices and price currencies of a valuation
Worked(v) ==
    [portfolio |-> v.maps.portfolio, prices |-> v.maps.prices,
     currencies |-> v.maps.currencies]

\* the snapshot the run started from, with every update of a timestamp
\* greater than or equal to T applied, newest timestamp first
RECURSIVE Replayed(_)
Replayed(T) ==
    LET above == {t \in DOMAIN updates : t > T}
        next == CHOOSE t \in above : \A u \in above : t <= u
    IN  ApplyBatch(updates[T],
                   IF above = {} THEN Worked(trace[1]) ELSE Replayed(next))

\* the timestamps the walk has still to visit
Remaining == {times[i] : i \in DOMAIN times}

\* C12: the walk visits the distinct timestamps of the updates in strictly
\* descending order, each once and all of them by its end, and the maps
\* valued at the step of timestamp T are the initial snapshot with exactly
\* the updates of every timestamp >= T applied.
C12_WalkOrderAndReplay ==
    (pc \in {"walk", "done", "panic"} /\ trace # <<>>) =>
        LET visited == {log[i].time : i \in DOMAIN log}
        IN  /\ \A i, j \in DOMAIN log : i < j => log[i].time > log[j].time
            /\ visited \cup Remaining = DOMAIN updates
            /\ \A t \in visited : \A u \in Remaining : t > u
            /\ pc = "done" => visited = DOMAIN updates
            /\ \A i \in 2 .. Len(trace) :
                  /\ trace[i].time \in DOMAIN updates
                  /\ i - 1 \in DOMAIN log => log[i - 1].time = trace[i].time
                  /\ Worked(trace[i]) = Replayed(trace[i].time)

C12_Witness ==
    /\ pc = "done"
    /\ Len(log) = 3
    /\ trace[4].maps.portfolio # trace[2].maps.portfolio
    /\ trace[4].maps.prices # trace[1].maps.prices

\* the in-year steps whose aggregate is the maximum over the in-year steps
TopSteps ==
    {i \in InYearSteps :
        \A j \in InYearSteps : RatCmp(log[i].aggregate, log[j].aggregate) >= 0}

\* C13: when several in-year steps share the maximum aggregate, the best
\* Candidate at the end of the walk is the one of them with the latest
\* timestamp, and a step whose aggregate equals the best so far never
\* replaces the best Candidate.
C13_TieKeepsLatest ==
    /\ (pc = "done" /\ Cardinality(TopSteps) >= 2) =>
          LET first == CHOOSE i \in TopSteps : \A j \in TopSteps : i <= j
          IN  /\ bestPortfolio # 0
              /\ bestTime = log[first].time
              /\ \A j \in TopSteps : bestTime >= log[j].time
              /\ bestAggregate = log[first].aggregate
    /\ \A i \in DOMAIN log :
          RatCmp(log[i].aggregate, BestBefore(i)) = 0 => ~log[i].newBest

\* the portfolio, prices and cost maps of valuation v hold what they held
\* when v was valued
MapsIsolated(v) ==
    /\ heap[v.portfolio] = v.maps.portfolio
    /\ heap[v.prices] = v.maps.prices
    /\ heap[v.cost] = v.maps.cost

\* the price currency of every asset v had a price for is what it was when
\* v was valued
CurrenciesIsolated(v) ==
    \A a \in DOMAIN v.maps.prices : GetStr(currencies, a) = v.maps.currencies[a]

\* C14: the portfolio, prices, price currencies and cost of every earlier
\* valuation, the best Candidate's among them, are what they were when that
\* valuation was made, whatever updates later steps applied.
C14_SnapshotIsolation ==
    \A i \in DOMAIN trace : MapsIsolated(trace[i]) /\ CurrenciesIsolated(trace[i])

\* the positions in the batch of timestamp t of the price updates for asset a
PriceUpdatesAt(t, a) ==
    {k \in DOMAIN updates[t] :
        updates[t][k].fn = "price" /\ updates[t][k].asset = a}

\* the timestamps >= T that have a price update for asset a
CandleTimesFrom(T, a) ==
    {t \in DOMAIN updates : t >= T /\ PriceUpdatesAt(t, a) # {}}

\* the price and price currency of asset a in valuation v
PriceOf(v, a) ==
    [price |-> Get(v.maps.prices, a), currency |-> GetStr(v.maps.currencies, a)]

C16_NoStepFails ==
    /\ Len(trace) >= 2 => (pc \in {"walk", "done"} /\ Len(log) = Len(trace) - 1)
    /\ pc = "aborted" => Len(trace) <= 1

----------------------------------------------------------------------------
(* INPUT_SECURITIES (SpecUpdate)                                           *)

\* C17: the Update of an INPUT_SECURITIES operation lowers the holding of
\* its asset by the quantity and leaves every other entry of the portfolio,
\* the balance of the payment currency included, and the prices and price
\* currencies as they were.
C17_InputSecuritiesFrame ==
    (pc = "update" /\ lastOp.Type \in InputSecuritiesTypes) =>
        LET after == heap[portfolio]
            asset == lastOp.AssetUid
            update == OperationToUpdate(lastOp).update
        IN  /\ Val(after, asset) =
                  RatSub(Val(before, asset), NewRat(lastOp.Quantity, 1))
            /\ \A k \in (DOMAIN before \cup DOMAIN after) \ {asset} :
                  k \in DOMAIN before /\ k \in DOMAIN after /\ after[k] = before[k]
            /\ \A t \in ValuePriceTables :
                  Update(update, before, t.prices, t.currencies) =
                     [portfolio |-> after, prices |-> t.prices,
                      currencies |-> t.currencies]

C17_Witness ==
    /\ pc = "update"
    /\ lastOp.Type \in InputSecuritiesTypes
    /\ lastOp.Quantity = 1
    /\ lastOp.Payment = MoneyValue(500, 0, "usd")
    /\ before = [X |-> <<10, 1>>, usd |-> <<1000, 1>>]
    /\ heap[portfolio] = [X |-> <<9, 1>>, usd |-> <<1000, 1>>]

----------------------------------------------------------------------------
(* The order of a batch (Spec)                                             *)

\* the batch with its updates in the order perm
Reordered(batch, perm) == [i \in DOMAIN batch |-> batch[perm[i]]]

\* the maps the next step starts from
Current ==
    [portfolio |-> heap[portfolio], prices |-> heap[prices],
     currencies |-> currencies]

\* the aggregate outcomes of a step that has applied its batch
Outcomes(maps) ==
    UNION {Aggregate(sold) :
              sold \in SellAll(maps.portfolio, maps.prices, maps.currencies)}

\* C18: a batch with at most one price update per asset leaves the same
\* portfolio mapping (keys and values), the same price table and the same
\* aggregate outcome in whatever order its updates are applied.
C18_BatchOrderIndependent ==
    (/\ pc = "walk"
     /\ times # <<>>
     /\ \A a \in AssetUids : Cardinality(PriceUpdatesAt(Head(times), a)) <= 1) =>
        LET batch == updates[Head(times)]
            result == ApplyBatch(batch, Current)
        IN  \A perm \in Permutations(DOMAIN batch) :
               LET other == ApplyBatch(Reordered(batch, perm), Current)
               IN  /\ other = result
                   /\ Outcomes(other) = Outcomes(result)

----------------------------------------------------------------------------
(* SellAll as a function (SpecValue)                                       *)

\* no price currency of the price table has a price itself
NoPricedPriceCurrency ==
    \A a \in DOMAIN heap[prices] : GetStr(currencies, a) \notin DOMAIN heap[prices]

\* the sum of quantity times price over the assets of todo
RECURSIVE Proceeds(_, _, _)
Proceeds(p, r, todo) ==
    IF todo = {}
    THEN ZeroRat
    ELSE LET a == CHOOSE x \in todo : TRUE
         IN  RatAdd(RatMul(p[a], r[a]), Proceeds(p, r, todo \ {a}))

\* the cost mapping of p under the price table: the entries without a
\* price, and each price currency with the proceeds of its assets added
Sold(p, r, c) ==
    LET priced == DOMAIN p \cap DOMAIN r
        kept == DOMAIN p \ DOMAIN r
    IN  [k \in kept \cup {GetStr(c, a) : a \in priced} |->
            RatAdd(IF k \in kept THEN p[k] ELSE ZeroRat,
                   Proceeds(p, r, {a \in priced : GetStr(c, a) = k}))]

\* C19: when no price currency has a price itself, SellAll leaves one and
\* the same cost mapping for every iteration order, inserted entries
\* visited or not: no key of it has a price, and each currency holds its
\* original balance plus the proceeds of the priced assets sold into it.
C19_SellAllDeterministic ==
    (pc = "sold" /\ NoPricedPriceCurrency) =>
        LET expected == Sold(heap[portfolio], heap[prices], currencies)
        IN  /\ SellAll(heap[portfolio], heap[prices], currencies) = {expected}
            /\ heap[cost] = expected
            /\ DOMAIN heap[cost] \cap DOMAIN heap[prices] = {}

C19_Witness ==
    /\ pc = "sold"
    /\ NoPricedPriceCurrency
    /\ {"X", "Y", "eur"} \subseteq DOMAIN heap[portfolio]
    /\ currencies = [X |-> "eur", Y |-> "eur"]
    /\ heap[cost]["eur"] =
          RatAdd(heap[portfolio]["eur"],
                 RatAdd(RatMul(heap[portfolio]["X"], <<3, 1>>),
                        RatMul(heap[portfolio]["Y"], <<1, 2>>)))

----------------------------------------------------------------------------
(* The best Candidate (Spec)                                               *)

\* the best Candidate is what step i of the walk valued, its cost being
\* SellAll of its portfolio under its prices with the price currencies c
BestIsStep(i, c) ==
    LET v == trace[i + 1]
    IN  /\ bestTime = v.time
        /\ bestTime = log[i].time
        /\ bestPortfolio = v.portfolio
        /\ bestPrices = v.prices
        /\ bestCost = v.cost
        /\ bestAggregate = log[i].aggregate
        /\ heap[bestCost] \in SellAll(heap[bestPortfolio], heap[bestPrices], c)
        /\ [panic |-> FALSE, sum |-> bestAggregate] \in Aggregate(heap[bestCost])

\* C20: in every state bestAggregate is not negative, and either there is
\* no best Candidate and bestAggregate is zero, or the best time, portfolio,
\* prices, cost and aggregate are those of one completed in-year step, the
\* cost being SellAll of the best portfolio under the best prices and the
\* aggregate being Aggregate of that cost.
C20_BestStateConsistent ==
    /\ RatCmp(bestAggregate, ZeroRat) >= 0
    /\ \/ BestUnset /\ bestAggregate = ZeroRat
       \/ \E i \in InYearSteps : BestIsStep(i, currencies)

\* the same with the price currencies as they were when the step was valued
BestStateAsValued ==
    /\ RatCmp(bestAggregate, ZeroRat) >= 0
    /\ \/ BestUnset /\ bestAggregate = ZeroRat
       \/ \E i \in InYearSteps : BestIsStep(i, trace[i + 1].maps.currencies)

=============================================================================
